---- MODULE Spec2Model ----
(***************************************************************************)
(* The in-memory user store and post store of the dashboard backend, with   *)
(* the request validation that stands in front of them.  Every request is   *)
(* one synchronous step: validate the payload, run the service method,      *)
(* answer.  `last` is the answer of the latest request.                     *)
(***************************************************************************)
EXTENDS Integers, Sequences, FiniteSets, TLC

VARIABLES
    users,        \* UsersService: the user list, in insertion order
    usersNextId,  \* UsersService: the next identifier to assign
    posts,        \* PostsService.posts
    nextId,       \* PostsService.nextId
    last,         \* the latest request and its answer
    ops,          \* number of requests served so far
    everUserIds,  \* history: every identifier a stored user has ever had
    task,         \* the PostsService method on the call stack, statement by statement
    api,          \* frontend ApiClient: the latest call, what fetch gave it, its outcome
    svc,          \* frontend PostService: the latest call, what fetch gave it, its outcome
    toasts,       \* useToasts: the toasts state, in display order
    now,          \* the browser's clock, Date.now(), in milliseconds
    renderedAt,   \* when ToastProvider last rendered (every Toast's timer was set then)
    added,        \* history: how many toasts addToast has made
    ticks,        \* history: how many single milliseconds have been let pass
    event,        \* history: what the latest toast step was
    route,        \* the page on display: "/" (dashboard), "/posts" or "/users"
    isOpen,       \* PostsPage: isAddModalOpen, isEditModalOpen, isViewModalOpen, isDeleteModalOpen
    selectedPost, \* PostsPage: <<>> for null, <<post>> otherwise
    formData,     \* PostsPage: the form's fields
    isSubmitting, \* PostsPage, UsersPage
    loading,      \* PostsPage
    pagePosts,    \* PostsPage: its posts state, the list on display
    userOptions,  \* PostsPage: the ids of its users state, offered by the Author select
    overflow,     \* document.body.style.overflow
    refreshTrigger, \* DataRefreshProvider
    net,          \* the page's requests that have not completed
    issued,       \* history: how many requests the page has issued
    submits,      \* history: how many submissions went out
    failures,     \* history: how many requests failed
    settled       \* history: the submission that completed in the latest step, if one did

backendVars == <<users, usersNextId, posts, nextId, last, ops, everUserIds>>

stepVars == <<task>>

toastVars == <<toasts, now, renderedAt, added, ticks, event>>

frontendVars == <<api, svc, toastVars>>

uiVars == <<isOpen, selectedPost, formData, overflow>>

pageVars == <<route, uiVars, isSubmitting, loading, pagePosts, userOptions, refreshTrigger,
              net, issued, submits, failures, settled>>

vars == <<backendVars, stepVars, frontendVars, pageVars>>

\* ------------------------------------------------------------------ bounds
\* Number of requests in a run.
MaxOps == 3

\* Bounds of the toast runs: toasts added, single milliseconds let pass.
MaxToasts == 3
MaxTicks == 2

\* Bound of the Posts page runs: submissions (add, update, delete) sent.
MaxSubmits == 2

\* ----------------------------------------------------------- JS helpers
\* Object spread {...a, ...b}: the keys of both, b's value where both have one.
Spread(a, b) ==
    [k \in (DOMAIN a) \cup (DOMAIN b) |-> IF k \in DOMAIN b THEN b[k] ELSE a[k]]

\* Array.prototype.findIndex, 1-based; 0 stands for JS's -1.
RECURSIVE FindIndexFrom(_, _, _)
FindIndexFrom(list, id, i) ==
    IF i > Len(list) THEN 0
    ELSE IF list[i].id = id THEN i
    ELSE FindIndexFrom(list, id, i + 1)

findIndex(list, id) == FindIndexFrom(list, id, 1)

\* Array.prototype.splice(index, 1)
splice(list, index) ==
    [i \in 1 .. (Len(list) - 1) |-> IF i < index THEN list[i] ELSE list[i + 1]]

\* list[index] = record
SetAt(list, index, record) == [list EXCEPT ![index] = record]

\* JS truthiness of a number: 0 is falsy.
Truthy(n) == n # 0

\* A thrown HTTP exception: nothing is stored, nothing is returned.
Throw(kind, list, counter) ==
    [status |-> kind, list |-> list, counter |-> counter, ret |-> <<>>]

Return(list, counter, ret) ==
    [status |-> "ok", list |-> list, counter |-> counter, ret |-> ret]

\* ----------------------------------------------------------- fixtures
SeedPosts == <<
    [id |-> 1, userId |-> 1,
     title |-> "sunt aut facere repellat provident occaecati excepturi optio reprehenderit",
     body |-> "quia et suscipit\nsuscipit recusandae consequuntur expedita et cum\nreprehenderit molestiae ut ut quas totam\nnostrum rerum est autem sunt rem eveniet architecto"],
    [id |-> 2, userId |-> 1,
     title |-> "qui est esse",
     body |-> "est rerum tempore vitae\nsequi sint nihil reprehenderit dolor beatae ea dolores neque\nfugiat blanditiis voluptate porro vel nihil molestiae ut reiciendis\nqui aperiam non debitis possimus qui neque nisi nulla"],
    [id |-> 3, userId |-> 1,
     title |-> "ea molestias quasi exercitationem repellat qui ipsa sit aut",
     body |-> "et iusto sed quo iure\nvoluptatem occaecati omnis eligendi aut ad\nvoluptatem doloribus vel accusantium quis pariatur\nmolestiae porro eius odio et labore et velit aut"],
    [id |-> 4, userId |-> 1,
     title |-> "eum et est occaecati",
     body |-> "ullam et saepe reiciendis voluptatem adipisci\nsit amet autem assumenda provident rerum culpa\nquis hic commodi nesciunt rem tenetur doloremque ipsam iure\nquis sunt voluptatem rerum illo velit"],
    [id |-> 5, userId |-> 1,
     title |-> "nesciunt quas odio",
     body |-> "repudiandae veniam quaerat sunt sed\nalias aut fugiat sit autem sed est\nvoluptatem omnis possimus esse voluptatibus quis\nest aut tenetur dolor neque"],
    [id |-> 6, userId |-> 2,
     title |-> "dolorem eum magni eos aperiam quia",
     body |-> "ut aspernatur corporis harum nihil quis provident sequi\nmollitia nobis aliquid molestiae\nperspiciatis et ea nemo ab reprehenderit accusantium quas\nvoluptate dolores velit et doloremque molestiae"],
    [id |-> 7, userId |-> 2,
     title |-> "magnam facilis autem",
     body |-> "dolore placeat quibusdam ea quo vitae\nmagni quis enim qui quis quo nemo aut saepe\nquidem repellat excepturi ut quia\nsunt ut sequi eos ea sed quas"],
    [id |-> 8, userId |-> 2,
     title |-> "dolorem dolore est ipsam",
     body |-> "dignissimos aperiam dolorem qui eum\nfacilis quibusdam animi sint suscipit qui sint possimus cum\nquaerat magni maiores excepturi\nipsam ut commodi dolor voluptatum modi aut vitae"],
    [id |-> 9, userId |-> 3,
     title |-> "nesciunt iure omnis dolorem tempora et accusantium",
     body |-> "consectetur animi nesciunt iure dolore\nenim quia ad\nveniam autem ut quam aut nobis\net est aut quod aut provident voluptas autem voluptas"],
    [id |-> 10, userId |-> 3,
     title |-> "optio molestias id quia eum",
     body |-> "quo et expedita modi cum officia vel magni\ndoloribus qui repudiandae\nvero nisi sit\nquos veniam quod sed accusamus veritatis error"]
>>

SeedNextId == 11

\* The seeded users: the users the seeded posts belong to.
SeedUser(i) ==
    [id |-> i, name |-> "Seed User", username |-> "seeduser", email |-> "seed@example.com"]

SeedUserCount == 3

SeedUsers == [i \in 1 .. SeedUserCount |-> SeedUser(i)]

\* ----------------------------------------------------------- inputs
\* Path ids and userIds the requests use: seeded ones, created ones, absent ones.
PostIdInputs == {1, 2, SeedNextId, 99}
UserIdInputs == {0, 1, SeedUserCount + 1, 99}
TitleInputs == {"abcd", "abcde"}
BodyInputs == {"123456789", "1234567890"}

Restrict(f, keys) == [k \in keys |-> f[k]]

\* JSON null as the value of a text field.  TLC compares a string with strings
\* only, so null is a reserved string that no text of the model equals.
Null == "<null>"

\* POST /posts payloads: the declared fields, and two payloads that carry a
\* field CreatePostDto does not declare.
CreatePostInputs ==
    [userId : UserIdInputs, title : TitleInputs, body : BodyInputs]
    \cup { [userId |-> 1, title |-> "abcde", body |-> "1234567890", author |-> "x"],
           [userId |-> 1, title |-> "abcde", body |-> "1234567890", id |-> 2] }

\* PATCH /posts/:id payloads: every subset of at most one of the fields
\* UpdatePostDto declares, a null title, and a payload with an undeclared field.
UpdatePostInputs ==
    { Restrict(full, keys) :
        full \in [id : {2, SeedNextId}, userId : UserIdInputs,
                  title : TitleInputs, body : BodyInputs],
        keys \in { k \in SUBSET {"id", "userId", "title", "body"} : Cardinality(k) <= 1 } }
    \cup { [title |-> Null],
           [title |-> "abcde", author |-> "x"] }

UserPathIds == {1, SeedUserCount + 1, 99}

\* POST /users payloads: the required fields, with and without an optional
\* one, one lacking a required field and one carrying an undeclared field.
\* Addresses are well formed, so @IsEmail is not exercised.
CreateUserInputs == {
    [name |-> "John Doe", username |-> "johndoe", email |-> "john@example.com"],
    [name |-> "Test User", username |-> "testuser", email |-> "test@example.com",
     phone |-> "555-0100"],
    [name |-> "John Doe", username |-> "johndoe"],
    [name |-> "John Doe", username |-> "johndoe", email |-> "john@example.com",
     role |-> "admin"] }

\* PATCH /users/:id payloads: subsets of the create fields.
UpdateUserInputs == {
    <<>>,
    [name |-> "Updated Name", email |-> "updated@example.com"],
    [phone |-> "555-0199"],
    [username |-> ""],
    [name |-> "Updated Name", role |-> "admin"] }

\* ----------------------------------------------------------- validation
\* @IsString()
IsString(value) == value # Null

\* class-validator's @MinLength(n): a string of at least n characters
MinLength(value, n) == IsString(value) /\ Len(value) >= n

\* @IsNotEmpty(): neither "" nor null nor undefined
IsNotEmpty(value) == value # "" /\ value # Null

\* @IsOptional(): the other decorators of the property are skipped when its
\* value is null or undefined.  Null is modelled for the text fields only.
IsOptional(key, value) == key \in {"title", "body"} /\ value = Null

\* The decorators with the title bound off by one.
ValidPostField_ShortTitle(key, value) ==
    CASE key = "userId" -> value \in Int
      [] key = "title" -> IsString(value) /\ IsNotEmpty(value) /\ MinLength(value, 4)
      [] key = "body" -> IsString(value) /\ IsNotEmpty(value) /\ MinLength(value, 10)
      [] key = "id" -> value \in Int

\* The decorators of CreatePostDto, field by field.
ValidPostField(key, value) ==
    CASE key = "userId" -> value \in Int
      [] key = "title" -> IsString(value) /\ IsNotEmpty(value) /\ MinLength(value, 5)
      [] key = "body" -> IsString(value) /\ IsNotEmpty(value) /\ MinLength(value, 10)
      [] key = "id" -> value \in Int

\* whitelist without forbidNonWhitelisted: undeclared fields do not reject.
CreatePostDto_Strip(dto) ==
    /\ {"userId", "title", "body"} \subseteq DOMAIN dto
    /\ \A key \in DOMAIN dto \cap {"userId", "title", "body"} :
          ValidPostField(key, dto[key])

\* ValidationPipe {whitelist, forbidNonWhitelisted} over CreatePostDto: only the
\* declared fields, all of them, each passing its decorators.
CreatePostDto(dto) ==
    /\ DOMAIN dto \subseteq {"userId", "title", "body"}
    /\ {"userId", "title", "body"} \subseteq DOMAIN dto
    /\ \A key \in DOMAIN dto : ValidPostField(key, dto[key])

\* UpdatePostDto = PartialType(CreatePostDto) plus an optional numeric id:
\* PartialType makes every inherited property @IsOptional().
UpdatePostDto(dto) ==
    /\ DOMAIN dto \subseteq {"userId", "title", "body", "id"}
    /\ \A key \in DOMAIN dto :
          IsOptional(key, dto[key]) \/ ValidPostField(key, dto[key])

\* The decorators of CreateUserDto (the nested address and company objects are
\* left out of the payloads).
ValidUserField(key, value) ==
    CASE key \in {"name", "username", "email"} -> IsNotEmpty(value)
      [] key \in {"phone", "website"} -> TRUE

CreateUserDto(dto) ==
    /\ DOMAIN dto \subseteq {"name", "username", "email", "phone", "website"}
    /\ {"name", "username", "email"} \subseteq DOMAIN dto
    /\ \A key \in DOMAIN dto : ValidUserField(key, dto[key])

\* UpdateUserDto: any subset of the create fields, each under its own rule.
UpdateUserDto(dto) ==
    /\ DOMAIN dto \subseteq {"name", "username", "email", "phone", "website"}
    /\ \A key \in DOMAIN dto : ValidUserField(key, dto[key])

\* ----------------------------------------------------------- UsersService
\* UsersService.exists(id)
exists(id) == \E i \in 1 .. Len(users) : users[i].id = id

UsersService_findAll == Return(users, usersNextId, users)

UsersService_findOne(id) ==
    LET index == findIndex(users, id) IN
    IF index = 0 THEN Throw("NotFound", users, usersNextId)
    ELSE Return(users, usersNextId, <<users[index]>>)

\* create taking the identifier from the list length instead of the counter.
UsersService_create_LengthId(createUserDto) ==
    LET newUser == Spread([id |-> Len(users) + 1], createUserDto) IN
    Return(Append(users, newUser), usersNextId + 1, <<newUser>>)

UsersService_create(createUserDto) ==
    LET newUser == Spread([id |-> usersNextId], createUserDto) IN
    Return(Append(users, newUser), usersNextId + 1, <<newUser>>)

\* update as a replace (PUT): the fields the payload leaves out are dropped.
UsersService_update_Replace(id, updateUserDto) ==
    LET userIndex == findIndex(users, id) IN
    IF userIndex = 0 THEN Throw("NotFound", users, usersNextId)
    ELSE LET updatedUser == Spread([id |-> id], updateUserDto) IN
         Return(SetAt(users, userIndex, updatedUser), usersNextId, <<updatedUser>>)

UsersService_update(id, updateUserDto) ==
    LET userIndex == findIndex(users, id) IN
    IF userIndex = 0 THEN Throw("NotFound", users, usersNextId)
    ELSE LET updatedUser == Spread(users[userIndex], updateUserDto) IN
         Return(SetAt(users, userIndex, updatedUser), usersNextId, <<updatedUser>>)

UsersService_remove(id) ==
    LET userIndex == findIndex(users, id) IN
    IF userIndex = 0 THEN Throw("NotFound", users, usersNextId)
    ELSE Return(splice(users, userIndex), usersNextId, <<>>)

\* ----------------------------------------------------------- PostsService
PostsService_findAll == Return(posts, nextId, posts)

\* findOne taking the id for the position in the list.
PostsService_findOne_ByPosition(id) ==
    IF id \notin 1 .. Len(posts) THEN Throw("NotFound", posts, nextId)
    ELSE Return(posts, nextId, <<posts[id]>>)

PostsService_findOne(id) ==
    LET index == findIndex(posts, id) IN
    IF index = 0 THEN Throw("NotFound", posts, nextId)
    ELSE Return(posts, nextId, <<posts[index]>>)

\* create taking the identifier before the user is checked.
PostsService_create_CountsFailures(createPostDto) ==
    IF ~exists(createPostDto.userId) THEN Throw("BadRequest", posts, nextId + 1)
    ELSE LET newPost == Spread([id |-> nextId], createPostDto) IN
         Return(Append(posts, newPost), nextId + 1, <<newPost>>)

\* create with the missing user reported as a missing entity (404).
PostsService_create_NotFound(createPostDto) ==
    IF ~exists(createPostDto.userId) THEN Throw("NotFound", posts, nextId)
    ELSE LET newPost == Spread([id |-> nextId], createPostDto) IN
         Return(Append(posts, newPost), nextId + 1, <<newPost>>)

\* create putting the new post first, as the Posts page does with its own list.
PostsService_create_Unshift(createPostDto) ==
    IF ~exists(createPostDto.userId) THEN Throw("BadRequest", posts, nextId)
    ELSE LET newPost == Spread([id |-> nextId], createPostDto) IN
         Return(<<newPost>> \o posts, nextId + 1, <<newPost>>)

PostsService_create(createPostDto) ==
    IF ~exists(createPostDto.userId) THEN Throw("BadRequest", posts, nextId)
    ELSE LET newPost == Spread([id |-> nextId], createPostDto) IN
         Return(Append(posts, newPost), nextId + 1, <<newPost>>)

\* update storing the merged record before it checks the new user.
PostsService_update_AssignsFirst(id, updatePostDto) ==
    LET postIndex == findIndex(posts, id) IN
    IF postIndex = 0 THEN Throw("NotFound", posts, nextId)
    ELSE LET updatedPost == Spread(posts[postIndex], updatePostDto) IN
         IF /\ "userId" \in DOMAIN updatePostDto
            /\ Truthy(updatePostDto.userId)
            /\ ~exists(updatePostDto.userId)
         THEN Throw("BadRequest", SetAt(posts, postIndex, updatedPost), nextId)
         ELSE Return(SetAt(posts, postIndex, updatedPost), nextId, <<updatedPost>>)

PostsService_update(id, updatePostDto) ==
    LET postIndex == findIndex(posts, id) IN
    IF postIndex = 0 THEN Throw("NotFound", posts, nextId)
    ELSE IF /\ "userId" \in DOMAIN updatePostDto
            /\ Truthy(updatePostDto.userId)
            /\ ~exists(updatePostDto.userId)
         THEN Throw("BadRequest", posts, nextId)
    ELSE LET updatedPost == Spread(posts[postIndex], updatePostDto) IN
         Return(SetAt(posts, postIndex, updatedPost), nextId, <<updatedPost>>)

PostsService_remove(id) ==
    LET postIndex == findIndex(posts, id) IN
    IF postIndex = 0 THEN Throw("NotFound", posts, nextId)
    ELSE Return(splice(posts, postIndex), nextId, <<>>)

\* Array.prototype.filter on userId
RECURSIVE FilterByUserId(_, _)
FilterByUserId(list, userId) ==
    IF list = <<>> THEN <<>>
    ELSE IF Head(list).userId = userId
         THEN <<Head(list)>> \o FilterByUserId(Tail(list), userId)
         ELSE FilterByUserId(Tail(list), userId)

\* findByUserId comparing the post's own id with the argument.
PostsService_findByUserId_OwnId(userId) ==
    Return(posts, nextId, SelectSeq(posts, LAMBDA post : post.id = userId))

PostsService_findByUserId(userId) ==
    Return(posts, nextId, FilterByUserId(posts, userId))

\* ----------------------------------------------------------- requests
\* The ValidationPipe answers 400 before the service is reached.
Rejected(list, counter) ==
    [status |-> "BadRequest", list |-> list, counter |-> counter, ret |-> <<>>]

\* `args` holds the path id and the payload of the request, where it has them.
Answer(op, args, stage, r) ==
    [op |-> op, args |-> args, stage |-> stage, status |-> r.status, ret |-> r.ret]

PostsRequest(op, args, accepted, r) ==
    /\ ops < MaxOps
    /\ ops' = ops + 1
    /\ posts' = (IF accepted THEN r.list ELSE posts)
    /\ nextId' = (IF accepted THEN r.counter ELSE nextId)
    /\ last' = (IF accepted THEN Answer(op, args, "service", r)
                ELSE Answer(op, args, "pipe", Rejected(posts, nextId)))
    /\ UNCHANGED <<users, usersNextId, everUserIds>>
    /\ UNCHANGED <<stepVars, frontendVars, pageVars>>

PostsCreate(dto) ==
    PostsRequest("posts.create", [dto |-> dto], CreatePostDto(dto), PostsService_create(dto))

PostsUpdate(id, dto) ==
    PostsRequest("posts.update", [id |-> id, dto |-> dto], UpdatePostDto(dto), PostsService_update(id, dto))

PostsRemove(id) ==
    PostsRequest("posts.remove", [id |-> id], TRUE, PostsService_remove(id))

PostsFindOne(id) ==
    PostsRequest("posts.findOne", [id |-> id], TRUE, PostsService_findOne(id))

PostsFindByUserId(userId) ==
    PostsRequest("posts.findByUserId", [userId |-> userId], TRUE, PostsService_findByUserId(userId))

IdsOf(list) == { list[i].id : i \in 1 .. Len(list) }

UsersRequest(op, args, accepted, r) ==
    /\ ops < MaxOps
    /\ ops' = ops + 1
    /\ users' = (IF accepted THEN r.list ELSE users)
    /\ usersNextId' = (IF accepted THEN r.counter ELSE usersNextId)
    /\ last' = (IF accepted THEN Answer(op, args, "service", r)
                ELSE Answer(op, args, "pipe", Rejected(users, usersNextId)))
    /\ everUserIds' = everUserIds \cup IdsOf(users')
    /\ UNCHANGED <<posts, nextId>>
    /\ UNCHANGED <<stepVars, frontendVars, pageVars>>

\* UsersController.create
UsersCreate(dto) ==
    UsersRequest("users.create", [dto |-> dto], CreateUserDto(dto), UsersService_create(dto))

\* UsersController.findAll
UsersFindAll ==
    UsersRequest("users.findAll", <<>>, TRUE, UsersService_findAll)

\* UsersController.findOne
UsersFindOne(id) ==
    UsersRequest("users.findOne", [id |-> id], TRUE, UsersService_findOne(id))

\* UsersController.update
UsersUpdate(id, dto) ==
    UsersRequest("users.update", [id |-> id, dto |-> dto], UpdateUserDto(dto), UsersService_update(id, dto))

\* UsersController.remove
UsersRemove(id) ==
    UsersRequest("users.remove", [id |-> id], TRUE, UsersService_remove(id))


\* ============================================ PostsService, by statement
\* A method of PostsService as the JavaScript engine runs it: one statement
\* after the other on the call stack. Node runs a callback to completion;
\* another request's handler gets the thread only when the stack is empty or
\* the running method is parked at an await.
Idle == [op |-> "none", args |-> <<>>, pc |-> "none", postIndex |-> 0]

\* An await before create's push would park the method there.
AwaitPoints_BeforePush == {<<"posts.create", "push">>}

\* The statements of PostsService before which the method awaits: none, every
\* method is synchronous.
AwaitPoints == {}

Free == task.op = "none" \/ <<task.op, task.pc>> \in AwaitPoints

FirstStatement(op) ==
    CASE op = "posts.create" -> "exists"
      [] op \in {"posts.update", "posts.remove", "posts.findOne"} -> "find"
      [] OTHER -> "return"

\* The controller calls the method with a payload the ValidationPipe let through.
Call(op, args) ==
    /\ ops < MaxOps
    /\ task.op = "none"
    /\ ops' = ops + 1
    /\ task' = [op |-> op, args |-> args, pc |-> FirstStatement(op), postIndex |-> 0]
    /\ UNCHANGED <<users, usersNextId, posts, nextId, last, everUserIds>>
    /\ UNCHANGED <<frontendVars, pageVars>>

At(op, pc) == task.op = op /\ task.pc = pc

Goto(pc, postIndex) ==
    /\ task' = [task EXCEPT !.pc = pc, !.postIndex = postIndex]
    /\ UNCHANGED <<posts, nextId, last>>

\* return or throw: the method leaves the stack
Leave(r) ==
    /\ posts' = r.list
    /\ nextId' = r.counter
    /\ last' = Answer(task.op, task.args, "service", r)
    /\ task' = Idle

Statement(step) ==
    /\ step
    /\ UNCHANGED <<users, usersNextId, everUserIds, ops>>
    /\ UNCHANGED <<frontendVars, pageVars>>

FindAllReturn ==
    Statement(At("posts.findAll", "return") /\ Leave(Return(posts, nextId, posts)))

FindByUserIdReturn ==
    Statement(/\ At("posts.findByUserId", "return")
              /\ Leave(Return(posts, nextId, FilterByUserId(posts, task.args.userId))))

FindOneFind ==
    Statement(/\ At("posts.findOne", "find")
              /\ LET index == findIndex(posts, task.args.id) IN
                 IF index = 0 THEN Leave(Throw("NotFound", posts, nextId))
                 ELSE Goto("return", index))

FindOneReturn ==
    Statement(/\ At("posts.findOne", "return")
              /\ Leave(Return(posts, nextId, <<posts[task.postIndex]>>)))

CreateExists ==
    Statement(/\ At("posts.create", "exists")
              /\ IF ~exists(task.args.dto.userId)
                 THEN Leave(Throw("BadRequest", posts, nextId))
                 ELSE Goto("push", 0))

CreatePush ==
    Statement(/\ At("posts.create", "push")
              /\ LET newPost == Spread([id |-> nextId], task.args.dto) IN
                 Leave(Return(Append(posts, newPost), nextId + 1, <<newPost>>)))

UpdateFind ==
    Statement(/\ At("posts.update", "find")
              /\ LET postIndex == findIndex(posts, task.args.id) IN
                 IF postIndex = 0 THEN Leave(Throw("NotFound", posts, nextId))
                 ELSE Goto("exists", postIndex))

UpdateExists ==
    Statement(/\ At("posts.update", "exists")
              /\ IF /\ "userId" \in DOMAIN task.args.dto
                    /\ Truthy(task.args.dto.userId)
                    /\ ~exists(task.args.dto.userId)
                 THEN Leave(Throw("BadRequest", posts, nextId))
                 ELSE Goto("assign", task.postIndex))

UpdateAssign ==
    Statement(/\ At("posts.update", "assign")
              /\ LET updatedPost == Spread(posts[task.postIndex], task.args.dto) IN
                 Leave(Return(SetAt(posts, task.postIndex, updatedPost), nextId,
                              <<updatedPost>>)))

RemoveFind ==
    Statement(/\ At("posts.remove", "find")
              /\ LET postIndex == findIndex(posts, task.args.id) IN
                 IF postIndex = 0 THEN Leave(Throw("NotFound", posts, nextId))
                 ELSE Goto("splice", postIndex))

RemoveSplice ==
    Statement(/\ At("posts.remove", "splice")
              /\ Leave(Return(splice(posts, task.postIndex), nextId, <<>>)))

\* Another request's handler, run whole while the thread is free.
Other(request) == Free /\ request

StepCreateInputs == { dto \in CreatePostInputs : CreatePostDto(dto) /\ dto.title = "abcde" }
StepUpdateInputs == { dto \in UpdatePostInputs : UpdatePostDto(dto) /\ "body" \notin DOMAIN dto }
StepPostIds == {1, 99}
StepUserIds == {1, 99}

StepNext ==
    \/ \E dto \in StepCreateInputs : Call("posts.create", [dto |-> dto])
    \/ \E id \in StepPostIds, dto \in StepUpdateInputs :
           Call("posts.update", [id |-> id, dto |-> dto])
    \/ \E id \in StepPostIds : Call("posts.remove", [id |-> id])
    \/ \E id \in StepPostIds : Call("posts.findOne", [id |-> id])
    \/ \E userId \in StepUserIds : Call("posts.findByUserId", [userId |-> userId])
    \/ Call("posts.findAll", <<>>)
    \/ FindAllReturn
    \/ FindByUserIdReturn
    \/ FindOneFind
    \/ FindOneReturn
    \/ CreateExists
    \/ CreatePush
    \/ UpdateFind
    \/ UpdateExists
    \/ UpdateAssign
    \/ RemoveFind
    \/ RemoveSplice
    \/ \E id \in StepUserIds : Other(UsersRemove(id))
    \/ \E id \in StepPostIds : Other(PostsRemove(id))


\* =========================================================== ApiClient
\* Decoded JSON values, tagged by their JavaScript type.
JNull == [t |-> "null"]
JNumber(n) == [t |-> "number", n |-> n]
JString(str) == [t |-> "string", s |-> str]
JArray(items) == [t |-> "array", items |-> items]
JObject(fields) == [t |-> "object", fields |-> fields]

\* JS truthiness of a decoded value
TruthyJson(json) ==
    CASE json.t = "null" -> FALSE
      [] json.t = "number" -> json.n # 0
      [] json.t = "string" -> json.s # ""
      [] OTHER -> TRUE

\* 'key' in json, for a value whose typeof is 'object'
HasKey(json, key) == json.t = "object" /\ key \in DOMAIN json.fields

\* json[key] where json is not null: undefined (here JNull) when there is none
Member(json, key) == IF HasKey(json, key) THEN json.fields[key] ELSE JNull

\* a || b
OrElse(a, b) == IF TruthyJson(a) THEN a ELSE b

\* What fetch() gives: a rejection, or a response with its body text.
NoBody == [empty |-> TRUE, parses |-> FALSE]
Garbage == [empty |-> FALSE, parses |-> FALSE]
Body(json) == [empty |-> FALSE, parses |-> TRUE, json |-> json]

FetchRejected(message) ==
    [kind |-> "rejected", error |-> [name |-> "TypeError", message |-> message]]

FetchResponse(status, statusText, body) ==
    [kind |-> "response", status |-> status, statusText |-> statusText, body |-> body]

\* Response.ok
Ok(response) == response.status \in 200 .. 299

\* What response.json() and JSON.parse throw on a body that is no JSON
SyntaxError(body) ==
    [name |-> "SyntaxError",
     message |-> IF body.empty THEN "Unexpected end of JSON input"
                 ELSE "Unexpected token < in JSON at position 0"]

\* handleHttpError taking the status text as it is, empty or not
handleHttpError_NoDefault(response) ==
    IF ~response.body.parses \/ response.body.json.t = "null"
    THEN [status |-> response.status,
          message |-> JString(response.statusText),
          details |-> JString("")]
    ELSE [status |-> response.status,
          message |-> OrElse(Member(response.body.json, "message"),
                             JString("HTTP Error: " \o ToString(response.status))),
          details |-> OrElse(Member(response.body.json, "details"), JString(""))]

\* ApiClient.handleHttpError
handleHttpError(response) ==
    LET status == response.status
        message == JString("HTTP Error: " \o ToString(status))
        details == JString("")
        \* response.json() throws on a body that is no JSON, and reading
        \* errorBody.message throws on null
        caught == ~response.body.parses \/ response.body.json.t = "null"
    IN  IF caught
        THEN [status |-> status,
              message |-> OrElse(JString(response.statusText), message),
              details |-> details]
        ELSE [status |-> status,
              message |-> OrElse(Member(response.body.json, "message"), message),
              details |-> OrElse(Member(response.body.json, "details"), details)]

\* ApiClient.handleRequestError
handleRequestError(error) ==
    IF "status" \in DOMAIN error THEN error
    ELSE IF "name" \in DOMAIN error
         THEN [status |-> 0,
               message |-> OrElse(JString(error.message), JString("Network error occurred")),
               details |-> JString("Request failed due to network issues")]
    ELSE [status |-> 0,
          message |-> JString("Unknown error occurred"),
          details |-> JString("An unexpected error happened during the request")]

\* An unwrapping that keeps the envelope when its data is falsy
Unwrap_TruthyData(jsonResponse) ==
    IF HasKey(jsonResponse, "data") /\ TruthyJson(jsonResponse.fields.data)
    THEN jsonResponse.fields.data
    ELSE jsonResponse

\* The unwrapping of the ResponseInterceptor's envelope
Unwrap(jsonResponse) ==
    IF /\ TruthyJson(jsonResponse)
       /\ jsonResponse.t \in {"object", "array"}
       /\ HasKey(jsonResponse, "data")
    THEN jsonResponse.fields.data
    ELSE jsonResponse

Returns(value) == [threw |-> FALSE, value |-> value]
Throws(error) == [threw |-> TRUE, error |-> error]

\* ApiClient.get / post / put / patch / delete: the outcome of one call
Request(verb, fetched) ==
    IF fetched.kind = "rejected" THEN Throws(handleRequestError(fetched.error))
    ELSE IF ~Ok(fetched) THEN Throws(handleRequestError(handleHttpError(fetched)))
    ELSE IF verb = "DELETE" /\ fetched.body.empty THEN Returns(JObject(<<>>))
    ELSE IF ~fetched.body.parses THEN Throws(handleRequestError(SyntaxError(fetched.body)))
    ELSE Returns(Unwrap(fetched.body.json))

\* ----------------------------------------------------------- inputs
Verbs == {"GET", "POST", "PUT", "PATCH", "DELETE"}

Payloads == {
    JNull, JNumber(0), JNumber(7), JString(""), JString("text"), JArray(<<>>),
    JObject([id |-> JNumber(1)]),
    JObject([data |-> JNumber(7)]) }

Envelope(payload) == JObject([data |-> payload])

ErrorBodies == {
    JObject([statusCode |-> JNumber(404), message |-> JString("Post with ID 99 not found"),
             error |-> JString("Not Found")]),
    JObject([message |-> JArray(<<JString("Title must be at least 5 characters long")>>),
             details |-> JString("Bad Request")]),
    JObject([message |-> JString("")]),
    JObject([error |-> JString("Internal Server Error")]) }

Bodies ==
    {NoBody, Garbage}
    \cup { Body(json) : json \in Payloads \cup { Envelope(p) : p \in Payloads } \cup ErrorBodies }

ReasonPhrase(status) ==
    CASE status = 200 -> "OK"
      [] status = 400 -> "Bad Request"
      [] status = 404 -> "Not Found"
      [] status = 500 -> "Internal Server Error"

\* The status text is the server's reason phrase, or empty (as over HTTP/2).
Fetched ==
    { FetchRejected(m) : m \in {"Failed to fetch", ""} }
    \cup UNION { { FetchResponse(status, text, body) :
                     text \in {"", ReasonPhrase(status)}, body \in Bodies } :
                   status \in {200, 400, 404, 500} }

\* One call of a verb method.
ApiCall(verb, fetched) ==
    /\ api' = [verb |-> verb, fetched |-> fetched, result |-> Request(verb, fetched)]
    /\ UNCHANGED <<backendVars, stepVars, svc, toastVars, pageVars>>

ApiNext == \E verb \in Verbs, fetched \in Fetched : ApiCall(verb, fetched)


\* ========================================================= PostService
\* new Error(message)
Error(message) == [name |-> "Error", message |-> message]

\* error instanceof Error: what ApiClient throws is a plain object
InstanceofError(error) == "name" \in DOMAIN error

\* String.prototype.includes
Includes(str, sub) ==
    \E i \in 1 .. Len(str) - Len(sub) + 1 : SubSeq(str, i, i + Len(sub) - 1) = sub

\* The messages of PostService, the Turkish letters written without their marks.
NotFoundMessage(id) == ToString(id) \o " ID'li gonderi bulunamadi"
GenericMessage(method) ==
    IF method = "getPostById" THEN "Gonderi yuklenirken bir hata olustu"
    ELSE "Gonderi silinirken bir hata olustu"

\* validateApiResponse
validateApiResponse(data) ==
    IF data = JNull THEN Throws(Error("API returned null or undefined data"))
    ELSE Returns(data)

\* The try block of getPostById and of deletePost
PostServiceTry(method, id, fetched) ==
    IF ~Truthy(id) \/ id <= 0 THEN Throws(Error("Gecerli bir gonderi ID'si gerekli"))
    ELSE LET response == Request(IF method = "getPostById" THEN "GET" ELSE "DELETE", fetched)
         IN  IF response.threw THEN response
             ELSE IF method = "getPostById" THEN validateApiResponse(response.value)
             ELSE Returns(JNull)

\* The catch block of getPostById and of deletePost
PostServiceCatch(method, id, error) ==
    IF InstanceofError(error) /\ Includes(error.message, "404")
    THEN Throws(Error(NotFoundMessage(id)))
    ELSE Throws(Error(GenericMessage(method)))

\* PostService.getPostById / PostService.deletePost
PostServiceMethod(method, id, fetched) ==
    LET tried == PostServiceTry(method, id, fetched) IN
    IF tried.threw THEN PostServiceCatch(method, id, tried.error) ELSE tried

PostServiceCall(method, id, fetched) ==
    /\ svc' = [method |-> method, id |-> id, fetched |-> fetched,
               result |-> PostServiceMethod(method, id, fetched)]
    /\ UNCHANGED <<backendVars, stepVars, api, toastVars, pageVars>>

PostServiceNext ==
    \E method \in {"getPostById", "deletePost"}, id \in {0, 99}, fetched \in Fetched :
        PostServiceCall(method, id, fetched)


\* ============================================================== Toasts
\* Toast's default for a toast given no duration
DefaultDuration == 5000

\* The durations a caller passes to success / error / warning / info:
\* none (undefined, here absent), 0 (stay until closed) or a time of its own.
DurationInputs == {0, 3000}

ToastInputs ==
    {[type |-> "success", message |-> "Saved"]}
    \cup { [type |-> "info", message |-> "Note", duration |-> d] : d \in DurationInputs }

\* The duration the Toast component works with
Duration(toast) == IF "duration" \in DOMAIN toast THEN toast.duration ELSE DefaultDuration

ToastIds == { toasts[i].id : i \in DOMAIN toasts }

\* addToast's identifier
NewToastId == ToString(now)

\* setToasts makes ToastProvider render again: every Toast gets a new onClose,
\* so its effect clears its timer and sets a new one.
Render(list) ==
    /\ toasts' = list
    /\ renderedAt' = now

ToastStep(name) ==
    /\ event' = name
    /\ UNCHANGED <<backendVars, stepVars, api, svc, pageVars>>

\* useToasts.addToast. `nth` tells the toasts apart in the history; `mounted`
\* is whether React gives the toast a component: it does for a new key, and
\* may or may not for a key another child already has.
addToast(toast, mounted) ==
    /\ added < MaxToasts
    /\ mounted \/ NewToastId \in ToastIds
    /\ Render(Append(toasts, Spread(toast,
                 [id |-> NewToastId, nth |-> added + 1, mounted |-> mounted])))
    /\ added' = added + 1
    /\ ToastStep("add")
    /\ UNCHANGED <<now, ticks>>

\* useToasts.removeToast
removeToast(id) == Render(SelectSeq(toasts, LAMBDA toast : toast.id # id))

\* The user closes a toast on its X button.
CloseClicked(i) ==
    /\ i \in DOMAIN toasts
    /\ toasts[i].mounted
    /\ removeToast(toasts[i].id)
    /\ ToastStep("close")
    /\ UNCHANGED <<now, added, ticks>>

\* Toast's effect: a timer only for a positive duration
HasTimer(toast) == toast.mounted /\ Duration(toast) > 0

Deadline(toast) == renderedAt + Duration(toast)

\* The timer of a Toast runs out and calls its onClose.
TimerFires(i) ==
    /\ i \in DOMAIN toasts
    /\ HasTimer(toasts[i])
    /\ now >= Deadline(toasts[i])
    /\ removeToast(toasts[i].id)
    /\ ToastStep("timer")
    /\ UNCHANGED <<now, added, ticks>>

\* One millisecond passes.
Tick ==
    /\ ticks < MaxTicks
    /\ now' = now + 1
    /\ ticks' = ticks + 1
    /\ ToastStep("time")
    /\ UNCHANGED <<toasts, renderedAt, added>>

\* Time passes up to the next moment a timer runs out.
Advance(i) ==
    /\ i \in DOMAIN toasts
    /\ HasTimer(toasts[i])
    /\ now < Deadline(toasts[i])
    /\ now' = Deadline(toasts[i])
    /\ ToastStep("time")
    /\ UNCHANGED <<toasts, renderedAt, added, ticks>>

ToastNext ==
    \/ \E toast \in ToastInputs, mounted \in BOOLEAN : addToast(toast, mounted)
    \/ \E i \in 1 .. MaxToasts : CloseClicked(i)
    \/ \E i \in 1 .. MaxToasts : TimerFires(i)
    \/ Tick
    \/ \E i \in 1 .. MaxToasts : Advance(i)


\* =========================================================== PostsPage
\* The modals of the page in the order they are rendered.
Modals == <<"add", "edit", "view", "delete">>

AllClosed == [m \in {"add", "edit", "view", "delete"} |-> FALSE]

EmptyForm == [userId |-> 0, title |-> "", body |-> ""]

\* Modal's body-scroll effect after a commit: of the Modals whose isOpen has
\* changed React first runs every cleanup ('unset'), then every effect in
\* render order, so the last of them decides.
BodyScrollEffect(before, after) ==
    LET changed == { i \in DOMAIN Modals : before[Modals[i]] # after[Modals[i]] }
        latest == CHOOSE i \in changed : \A j \in changed : j <= i
    IN  IF changed = {} THEN overflow
        ELSE IF after[Modals[latest]] THEN "hidden" ELSE "unset"

\* text.trim() is empty
IsBlank(text) == \A i \in 1 .. Len(text) : SubSeq(text, i, i) = " "

\* PostsPage.validateForm
validateForm(data) ==
    /\ Truthy(data.userId) /\ data.userId > 0
    /\ ~IsBlank(data.title) /\ Len(data.title) >= 5
    /\ ~IsBlank(data.body) /\ Len(data.body) >= 10

\* One commit of the page's modal, selection and form state.
Commit(open, selected, data) ==
    /\ isOpen' = open
    /\ selectedPost' = selected
    /\ formData' = data
    /\ overflow' = BodyScrollEffect(isOpen, open)

NotThePage == <<backendVars, stepVars, frontendVars>>

\* A click or key on the Posts page that sends nothing.
UserEvent(commit) ==
    /\ route = "/posts"
    /\ commit
    /\ settled' = "none"
    /\ UNCHANGED <<isSubmitting, loading, pagePosts, userOptions, refreshTrigger,
                   net, issued, submits, failures, route>>
    /\ UNCHANGED NotThePage

\* The New Post button
ClickNewPost == UserEvent(Commit([isOpen EXCEPT !.add = TRUE], selectedPost, formData))

Row(id) == { i \in DOMAIN pagePosts : pagePosts[i].id = id }

\* PostsPage.handleEditPost
handleEditPost(post) ==
    Commit([isOpen EXCEPT !.edit = TRUE], <<post>>,
           [userId |-> post.userId, title |-> post.title, body |-> post.body])

\* PostsPage.handleViewPost
handleViewPost(post) == Commit([isOpen EXCEPT !.view = TRUE], <<post>>, formData)

\* PostsPage.handleDeletePost
handleDeletePost(post) == Commit([isOpen EXCEPT !.delete = TRUE], <<post>>, formData)

\* The action buttons of a row of the table
RowEdit(id) == \E i \in Row(id) : UserEvent(handleEditPost(pagePosts[i]))
RowView(id) == \E i \in Row(id) : UserEvent(handleViewPost(pagePosts[i]))
RowDelete(id) == \E i \in Row(id) : UserEvent(handleDeletePost(pagePosts[i]))

\* The Edit button of the view modal, rendered when there is a selected post
ViewEdit ==
    /\ isOpen.view /\ selectedPost # <<>>
    /\ UserEvent(handleEditPost(selectedPost[1]))

\* The Close button of the view modal
ViewClose ==
    /\ isOpen.view /\ selectedPost # <<>>
    /\ UserEvent(Commit([isOpen EXCEPT !.view = FALSE], selectedPost, formData))

\* The onClose of each modal (its X button and its backdrop):
\* add and edit run resetForm, view and delete clear the selection.
onClose(modal) ==
    /\ isOpen[modal]
    /\ UserEvent(Commit([isOpen EXCEPT ![modal] = FALSE], <<>>,
                        IF modal \in {"add", "edit"} THEN EmptyForm ELSE formData))

\* The Escape key: the keydown listener of every open Modal calls its onClose.
Escape ==
    /\ isOpen # AllClosed
    /\ UserEvent(Commit(AllClosed, <<>>,
                        IF isOpen.add \/ isOpen.edit THEN EmptyForm ELSE formData))

\* The Cancel button of the add and edit forms
FormCancel ==
    /\ isOpen.add \/ isOpen.edit
    /\ ~isSubmitting
    /\ UserEvent(Commit([isOpen EXCEPT !.add = FALSE, !.edit = FALSE], <<>>, EmptyForm))

\* What the user puts into the form: an author from the select, a title that
\* is long enough or not.
FormInputs == [userId : userOptions \cap {1}, title : TitleInputs, body : {"1234567890"}]

ChangeForm(data) ==
    /\ isOpen.add \/ isOpen.edit
    /\ data # formData
    /\ UserEvent(Commit(isOpen, selectedPost, data))

\* ------------------------------------------------------------ requests
Request_(n, kind, arg) == [n |-> n, kind |-> kind, arg |-> arg, phase |-> "sent"]

\* PostsPage.loadData up to its await
loadData(n) == Request_(n, "load", <<>>)

\* UsersPage.loadUsers up to its await
loadUsers(n) == Request_(n, "loadUsers", <<>>)

\* The user goes from the dashboard to a page, which mounts and loads its data.
Navigate(to) ==
    /\ route = "/"
    /\ route' = to
    /\ net' = {IF to = "/posts" THEN loadData(issued + 1) ELSE loadUsers(issued + 1)}
    /\ issued' = issued + 1
    /\ settled' = "none"
    /\ UNCHANGED <<uiVars, isSubmitting, loading, pagePosts, userOptions, refreshTrigger,
                   submits, failures>>
    /\ UNCHANGED NotThePage

\* A submission up to its await: setIsSubmitting(true) and the service call
Submit(kind, arg) ==
    /\ ~isSubmitting
    /\ submits < MaxSubmits
    /\ isSubmitting' = TRUE
    /\ net' = net \cup {Request_(issued + 1, kind, arg)}
    /\ issued' = issued + 1
    /\ submits' = submits + 1
    /\ settled' = "none"
    /\ UNCHANGED <<route, uiVars, loading, pagePosts, userOptions, refreshTrigger, failures>>
    /\ UNCHANGED NotThePage

\* PostsPage.handleAddPost up to its await
handleAddPost ==
    /\ route = "/posts"
    /\ isOpen.add
    /\ validateForm(formData)
    /\ Submit("create", formData)

\* PostsPage.handleUpdatePost up to its await
handleUpdatePost ==
    /\ route = "/posts"
    /\ isOpen.edit
    /\ selectedPost # <<>>
    /\ validateForm(formData)
    /\ Submit("update", [id |-> selectedPost[1].id, dto |-> formData])

\* PostsPage.confirmDeletePost up to its await
confirmDeletePost ==
    /\ route = "/posts"
    /\ isOpen.delete
    /\ selectedPost # <<>>
    /\ Submit("delete", [id |-> selectedPost[1].id])

\* The backend handles a request and answers it.
Handled(request) ==
    CASE request.kind = "load" -> Return(posts, nextId, <<[posts |-> posts, users |-> IdsOf(users)]>>)
      [] request.kind = "create" ->
             IF CreatePostDto(request.arg) THEN PostsService_create(request.arg)
             ELSE Rejected(posts, nextId)
      [] request.kind = "update" ->
             LET updatePayload == Spread([id |-> request.arg.id], request.arg.dto) IN
             IF UpdatePostDto(updatePayload)
             THEN PostsService_update(request.arg.id, updatePayload)
             ELSE Rejected(posts, nextId)
      [] request.kind = "delete" -> PostsService_remove(request.arg.id)

Answered(request, ok, data) ==
    [n |-> request.n, kind |-> request.kind, arg |-> request.arg, phase |-> "answered",
     ok |-> ok, data |-> data]

Serve(request) ==
    /\ request \in net /\ request.phase = "sent"
    /\ request.kind \in {"load", "create", "update", "delete"}
    /\ LET r == Handled(request) IN
       /\ posts' = r.list
       /\ nextId' = r.counter
       /\ net' = (net \ {request}) \cup {Answered(request, r.status = "ok", r.ret)}
    /\ settled' = "none"
    /\ UNCHANGED <<users, usersNextId, last, ops, everUserIds>>
    /\ UNCHANGED <<stepVars, frontendVars>>
    /\ UNCHANGED <<route, uiVars, isSubmitting, loading, pagePosts, userOptions,
                   refreshTrigger, issued, submits, failures>>

\* A request fails without the backend having handled it: the service's own
\* checks throw, or fetch rejects.
Fail(request) ==
    /\ request \in net /\ request.phase = "sent"
    /\ net' = (net \ {request}) \cup {Answered(request, FALSE, <<>>)}
    /\ settled' = "none"
    /\ UNCHANGED <<route, uiVars, isSubmitting, loading, pagePosts, userOptions,
                   refreshTrigger, issued, submits, failures>>
    /\ UNCHANGED NotThePage

\* triggerRefresh and the page's effect on refreshTrigger: its load starts again.
triggerRefresh(request) ==
    /\ refreshTrigger' = refreshTrigger + 1
    /\ loading' = TRUE
    /\ net' = (net \ {request})
                 \cup {IF route = "/posts" THEN loadData(issued + 1) ELSE loadUsers(issued + 1)}
    /\ issued' = issued + 1

\* A handler that resets isSubmitting at the end of its try block only
finally_TryOnly(ok) == ~ok

\* The finally block of a submission handler: isSubmitting afterwards
finally(ok) == FALSE

\* The handlers of the Users page up to their await, for a form that passes
\* validateForm and, in update and delete, a selected user.
handleAddUser == route = "/users" /\ Submit("createUser", <<>>)
handleUpdateUser == route = "/users" /\ Submit("updateUser", <<>>)
confirmDeleteUser == route = "/users" /\ Submit("deleteUser", <<>>)

\* The UserService call of a Users page request resolves.
UserServiceResolves(request) ==
    /\ request \in net /\ request.phase = "sent"
    /\ request.kind \in {"loadUsers", "createUser", "updateUser", "deleteUser"}
    /\ net' = (net \ {request}) \cup {Answered(request, TRUE, <<>>)}
    /\ settled' = "none"
    /\ UNCHANGED <<route, uiVars, isSubmitting, loading, pagePosts, userOptions,
                   refreshTrigger, issued, submits, failures>>
    /\ UNCHANGED NotThePage

\* The rest of loadUsers
LoadUsersDone(request) ==
    /\ request.kind = "loadUsers"
    /\ failures' = (IF request.ok THEN failures ELSE failures + 1)
    /\ loading' = FALSE
    /\ net' = net \ {request}
    /\ settled' = "none"
    /\ UNCHANGED <<uiVars, isSubmitting, pagePosts, userOptions, refreshTrigger, issued>>

\* The rest of handleAddUser, handleUpdateUser and confirmDeleteUser: the success
\* path or the catch, and the finally. What they do to the list, the modals
\* and the form of the Users page is left out.
UsersSubmitDone(request) ==
    /\ request.kind \in {"createUser", "updateUser", "deleteUser"}
    /\ IF request.ok
       THEN /\ triggerRefresh(request)
            /\ UNCHANGED failures
       ELSE /\ failures' = failures + 1
            /\ net' = net \ {request}
            /\ UNCHANGED <<loading, refreshTrigger, issued>>
    /\ isSubmitting' = finally(request.ok)
    /\ settled' = request.kind
    /\ UNCHANGED <<uiVars, pagePosts, userOptions>>

\* setPosts of handleUpdatePost
MapUpdated(list, id, updatedPost) ==
    [i \in DOMAIN list |-> IF list[i].id = id THEN Spread(list[i], updatedPost) ELSE list[i]]

\* The rest of loadData, once Promise.all has settled
LoadDone(request) ==
    /\ request.kind = "load"
    /\ IF request.ok
       THEN /\ pagePosts' = request.data[1].posts
            /\ userOptions' = request.data[1].users
            /\ UNCHANGED failures
       ELSE /\ failures' = failures + 1
            /\ UNCHANGED <<pagePosts, userOptions>>
    /\ loading' = FALSE
    /\ net' = net \ {request}
    /\ settled' = "none"
    /\ UNCHANGED <<uiVars, isSubmitting, refreshTrigger, issued>>

\* The rest of a submission, once the service call has settled: the success
\* path or the catch, and the finally.
SubmitDone(request) ==
    /\ request.kind \in {"create", "update", "delete"}
    /\ IF request.ok
       THEN /\ pagePosts' =
                   CASE request.kind = "create" -> request.data \o pagePosts
                     [] request.kind = "update" ->
                            MapUpdated(pagePosts, request.arg.id, request.data[1])
                     [] request.kind = "delete" ->
                            SelectSeq(pagePosts, LAMBDA post : post.id # request.arg.id)
            /\ Commit([isOpen EXCEPT ![IF request.kind = "create" THEN "add"
                                       ELSE IF request.kind = "update" THEN "edit"
                                       ELSE "delete"] = FALSE],
                      <<>>,
                      IF request.kind = "delete" THEN formData ELSE EmptyForm)
            /\ triggerRefresh(request)
            /\ UNCHANGED <<userOptions, failures>>
       ELSE /\ failures' = failures + 1
            /\ net' = net \ {request}
            /\ UNCHANGED <<uiVars, pagePosts, userOptions, loading, refreshTrigger, issued>>
    /\ isSubmitting' = finally(request.ok)
    /\ settled' = request.kind

\* A response reaches the page, in whatever order.
Deliver(request) ==
    /\ request \in net /\ request.phase = "answered"
    /\ \/ LoadDone(request)
       \/ SubmitDone(request)
       \/ LoadUsersDone(request)
       \/ UsersSubmitDone(request)
    /\ UNCHANGED <<route, submits>>
    /\ UNCHANGED NotThePage

RowInputs == {1}

\* The user among the modals of the page, once the page has loaded.
ModalNext ==
    \/ Navigate("/posts")
    \/ ClickNewPost
    \/ \E id \in RowInputs : RowEdit(id)
    \/ \E id \in RowInputs : RowView(id)
    \/ \E id \in RowInputs : RowDelete(id)
    \/ ViewEdit
    \/ ViewClose
    \/ \E i \in DOMAIN Modals : onClose(Modals[i])
    \/ Escape
    \/ FormCancel
    \/ \E data \in FormInputs : ChangeForm(data)
    \/ \E request \in net : Serve(request)
    \/ \E request \in net : Deliver(request)

\* The user submitting forms, and the requests of the page on their way.
PageNext ==
    \/ \E to \in {"/posts", "/users"} : Navigate(to)
    \/ ClickNewPost
    \/ \E id \in RowInputs : RowEdit(id)
    \/ \E id \in RowInputs : RowDelete(id)
    \/ \E data \in FormInputs : ChangeForm(data)
    \/ handleAddPost
    \/ handleUpdatePost
    \/ confirmDeletePost
    \/ handleAddUser
    \/ handleUpdateUser
    \/ confirmDeleteUser
    \/ \E request \in net : UserServiceResolves(request)
    \/ \E request \in net : Serve(request)
    \/ \E request \in net : Fail(request)
    \/ \E request \in net : Deliver(request)

Init ==
    /\ users = SeedUsers
    /\ usersNextId = SeedUserCount + 1
    /\ posts = SeedPosts
    /\ nextId = SeedNextId
    /\ last = [op |-> "none", args |-> <<>>, stage |-> "none",
               status |-> "ok", ret |-> <<>>]
    /\ ops = 0
    /\ everUserIds = IdsOf(SeedUsers)
    /\ task = Idle
    /\ toasts = <<>>
    /\ now = 0
    /\ renderedAt = 0
    /\ added = 0
    /\ ticks = 0
    /\ event = "none"
    /\ svc = [method |-> "none", id |-> 0, fetched |-> FetchRejected(""),
              result |-> Returns(JNull)]
    /\ route = "/"
    /\ isOpen = AllClosed
    /\ selectedPost = <<>>
    /\ formData = EmptyForm
    /\ isSubmitting = FALSE
    /\ loading = TRUE
    /\ pagePosts = <<>>
    /\ userOptions = {}
    /\ overflow = "unset"
    /\ refreshTrigger = 0
    /\ net = {}
    /\ issued = 0
    /\ submits = 0
    /\ failures = 0
    /\ settled = "none"
    /\ api = [verb |-> "none", fetched |-> FetchRejected(""), result |-> Returns(JNull)]

Next ==
    \/ \E dto \in CreatePostInputs : PostsCreate(dto)
    \/ \E id \in PostIdInputs, dto \in UpdatePostInputs : PostsUpdate(id, dto)
    \/ \E id \in PostIdInputs : PostsRemove(id)
    \/ \E id \in PostIdInputs : PostsFindOne(id)
    \/ \E userId \in UserIdInputs : PostsFindByUserId(userId)
    \/ \E dto \in CreateUserInputs : UsersCreate(dto)
    \/ UsersFindAll
    \/ \E id \in UserPathIds : UsersFindOne(id)
    \/ \E id \in UserPathIds, dto \in UpdateUserInputs : UsersUpdate(id, dto)
    \/ \E id \in UserPathIds : UsersRemove(id)

Spec == Init /\ [][Next]_vars

\* PostsService run statement by statement, among other requests' handlers.
SpecSteps == Init /\ [][StepNext]_vars

\* The Posts page: its modals under the user's clicks and keys.
SpecModals == Init /\ [][ModalNext]_vars

\* The Posts and Users pages: their submissions and loads against the backend.
SpecPage == Init /\ [][PageNext]_vars

\* The same, where every request on its way is answered or fails and every
\* response reaches the page: a promise that settles resumes its handler.
SpecPageFair ==
    /\ SpecPage
    /\ WF_vars(\E request \in net :
                  Serve(request) \/ UserServiceResolves(request) \/ Fail(request))
    /\ WF_vars(\E request \in net : Deliver(request))

\* PostService's getPostById and deletePost over what fetch can give.
SpecPostService == Init /\ [][PostServiceNext]_vars

\* The toast manager and the Toast components under the clock.
SpecToasts == Init /\ [][ToastNext]_vars

\* The ApiClient alone: calls of its verb methods over what fetch can give.
SpecApi == Init /\ [][ApiNext]_vars

\* =================================================================== claims
Served(op) == last.op = op /\ last.stage = "service"

\* C1: a post create whose userId names no stored user is answered with
\* BadRequest (400), never NotFound, whatever the rest of the payload is.
C1_CreateAbsentUserIsBadRequest ==
    (last.op = "posts.create" /\ ~exists(last.args.dto.userId))
        => last.status = "BadRequest"

C1_Witness ==
    /\ Served("posts.create")
    /\ ~exists(last.args.dto.userId)
    /\ last.status = "BadRequest"

\* C2: every stored post's userId names a user that is in the user store now.
C2_PostsReferenceStoredUsers ==
    \A i \in 1 .. Len(posts) : exists(posts[i].userId)

\* C3: no two stored posts have the same id.
C3_PostIdsUnique ==
    \A i, j \in 1 .. Len(posts) : posts[i].id = posts[j].id => i = j

\* C4: the identifier a user create returns is none that a stored user has or
\* ever had, deleted users included.
C4_CreatedUserIdIsFresh ==
    [][(last'.op = "users.create" /\ last'.status = "ok")
        => last'.ret[1].id \notin everUserIds]_vars

C4_Witness ==
    /\ last.op = "users.create"
    /\ last.status = "ok"
    /\ everUserIds \ IdsOf(users) # {}

\* C5: a post update that carries the userId of an absent user is answered
\* with BadRequest when the post exists.
C5_UpdateAbsentUserIsBadRequest ==
    (/\ Served("posts.update")
     /\ "userId" \in DOMAIN last.args.dto
     /\ ~exists(last.args.dto.userId)
     /\ last.status # "NotFound")
        => last.status = "BadRequest"

\* C6: after a delete that succeeded, get-by-id finds no record under the
\* deleted id and the list holds none.
C6_DeletedIdIsGone ==
    /\ (last.op = "posts.remove" /\ last.status = "ok")
          => /\ PostsService_findOne(last.args.id).status = "NotFound"
             /\ last.args.id \notin IdsOf(PostsService_findAll.ret)
    /\ (last.op = "users.remove" /\ last.status = "ok")
          => /\ UsersService_findOne(last.args.id).status = "NotFound"
             /\ last.args.id \notin IdsOf(UsersService_findAll.ret)

\* C7: a post update with a 4-character title, or a 9-character body, is
\* rejected by validation and the post list stays as it was; an update of the
\* title alone to 5 characters, or of the body alone to 10, passes validation
\* and is stored when the post exists.
C7_UpdateLengthBounds ==
    [][last'.op = "posts.update" =>
        LET dto == last'.args.dto
            index == findIndex(posts, last'.args.id)
            TooShort == \/ ("title" \in DOMAIN dto /\ Len(dto.title) = 4)
                        \/ ("body" \in DOMAIN dto /\ Len(dto.body) = 9)
            LongEnough == \/ (DOMAIN dto = {"title"} /\ Len(dto.title) = 5)
                          \/ (DOMAIN dto = {"body"} /\ Len(dto.body) = 10)
        IN  /\ TooShort => /\ last'.stage = "pipe"
                           /\ last'.status = "BadRequest"
                           /\ posts' = posts
            /\ LongEnough => /\ last'.stage = "service"
                             /\ index # 0 => /\ last'.status = "ok"
                                             /\ posts'[index] = Spread(posts[index], dto)
    ]_vars

C7_Witness ==
    /\ last.op = "posts.update"
    /\ "title" \in DOMAIN last.args.dto
    /\ Len(last.args.dto.title) = 4
    /\ last.stage = "pipe"
    /\ findIndex(posts, last.args.id) # 0

\* The positions in the full list of the posts that belong to userId.
Matching(userId) == { i \in 1 .. Len(posts) : posts[i].userId = userId }

\* C8: findByUserId(userId) returns the posts whose userId is the argument and
\* no other, the k-th returned being the k-th such post of the full list.
C8_FindByUserIdIsOrderedFilter ==
    \A userId \in UserIdInputs \cup { posts[i].userId : i \in 1 .. Len(posts) } :
        LET found == PostsService_findByUserId(userId).ret IN
        /\ Len(found) = Cardinality(Matching(userId))
        /\ \A k \in 1 .. Len(found) :
              \E i \in Matching(userId) :
                  /\ found[k] = posts[i]
                  /\ Cardinality({ j \in Matching(userId) : j < i }) = k - 1
        /\ (last.op = "posts.findByUserId" /\ last.args.userId = userId)
              => last.ret = found

\* a user's posts with another user's post between them in the list
C8_Witness ==
    /\ last.op = "posts.findByUserId"
    /\ Len(last.ret) >= 2
    /\ \E i, j, k \in 1 .. Len(posts) :
          /\ i < j /\ j < k
          /\ posts[i].userId = last.args.userId
          /\ posts[j].userId # last.args.userId
          /\ posts[k].userId = last.args.userId

\* C9: fetching a user by the id its create returned, right after the create,
\* yields the record the create returned, field for field.
C9_CreateThenFindOne ==
    (last.op = "users.create" /\ last.status = "ok")
        => LET fetched == UsersService_findOne(last.ret[1].id) IN
           /\ fetched.status = "ok"
           /\ DOMAIN fetched.ret[1] = DOMAIN last.ret[1]
           /\ \A field \in DOMAIN last.ret[1] : fetched.ret[1][field] = last.ret[1][field]

C9_Witness ==
    /\ last.op = "users.create"
    /\ last.status = "ok"
    /\ "phone" \in DOMAIN last.ret[1]
    /\ Len(users) <= SeedUserCount

\* C10: a user update on a stored id returns the record with that id, the
\* provided fields at their provided values and the others as they were, and
\* stores it; on an absent id it answers NotFound and changes nothing.
C10_UserUpdateMerges ==
    [][Served("users.update")' =>
        LET dto == last'.args.dto
            index == findIndex(users, last'.args.id)
        IN  IF index = 0
            THEN /\ last'.status = "NotFound"
                 /\ users' = users
                 /\ usersNextId' = usersNextId
            ELSE LET before == users[index]
                     after == last'.ret[1]
                 IN  /\ last'.status = "ok"
                     /\ after.id = last'.args.id
                     /\ DOMAIN after = DOMAIN before \cup DOMAIN dto
                     /\ \A field \in DOMAIN dto : after[field] = dto[field]
                     /\ \A field \in DOMAIN before \ DOMAIN dto : after[field] = before[field]
                     /\ users'[index] = after
                     /\ \A i \in 1 .. Len(users) : i # index => users'[i] = users[i]
                     /\ Len(users') = Len(users)
    ]_vars

\* an update that provides some fields and leaves others out
C10_Witness ==
    /\ Served("users.update")
    /\ last.status = "ok"
    /\ DOMAIN last.args.dto # {}
    /\ "username" \notin DOMAIN last.args.dto

\* C11: findOne(id) answers with a stored record whose id is the argument when
\* the store holds one, and with NotFound (404) when it holds none.
C11_FindOneByIdOrNotFound ==
    /\ last.op = "posts.findOne" =>
          IF last.args.id \in IdsOf(posts)
          THEN /\ last.status = "ok"
               /\ last.ret[1].id = last.args.id
               /\ \E i \in 1 .. Len(posts) : posts[i] = last.ret[1]
          ELSE last.status = "NotFound" /\ last.ret = <<>>
    /\ last.op = "users.findOne" =>
          IF last.args.id \in IdsOf(users)
          THEN /\ last.status = "ok"
               /\ last.ret[1].id = last.args.id
               /\ \E i \in 1 .. Len(users) : users[i] = last.ret[1]
          ELSE last.status = "NotFound" /\ last.ret = <<>>

\* a record found away from the position its id names
C11_Witness ==
    /\ last.op = "posts.findOne"
    /\ last.status = "ok"
    /\ findIndex(posts, last.args.id) # last.args.id

\* C12: an identifier counter grows by exactly 1 in a create that succeeds and
\* is left as it was by every other request, so it never decreases.
C12_CounterGrowsOnCreateOnly ==
    [][/\ nextId' = (IF last'.op = "posts.create" /\ last'.status = "ok"
                     THEN nextId + 1 ELSE nextId)
       /\ usersNextId' = (IF last'.op = "users.create" /\ last'.status = "ok"
                          THEN usersNextId + 1 ELSE usersNextId)
       /\ nextId' >= nextId
       /\ usersNextId' >= usersNextId]_vars

\* a create that failed, after one that succeeded
C12_Witness ==
    /\ last.op = "posts.create"
    /\ last.status = "BadRequest"
    /\ nextId = SeedNextId + 1

\* The fields a payload may carry, per request.
Declared(op) ==
    CASE op = "posts.create" -> {"userId", "title", "body"}
      [] op = "posts.update" -> {"userId", "title", "body", "id"}
      [] op \in {"users.create", "users.update"} ->
            {"name", "username", "email", "phone", "website"}

\* C13: a create or update payload with a field its DTO does not declare is
\* answered with BadRequest (400) by validation, and no store changes.
C13_UndeclaredFieldRejected ==
    [][(/\ last'.op \in {"posts.create", "posts.update", "users.create", "users.update"}
        /\ ~(DOMAIN last'.args.dto \subseteq Declared(last'.op)))
       => /\ last'.status = "BadRequest"
          /\ last'.stage = "pipe"
          /\ UNCHANGED <<posts, nextId, users, usersNextId>>]_vars

C13_Witness ==
    /\ last.op = "posts.create"
    /\ "author" \in DOMAIN last.args.dto
    /\ last.stage = "pipe"
    /\ last.status = "BadRequest"

\* A create payload every field of which is accepted.
AcceptedCreatePost == [userId |-> 1, title |-> "abcde", body |-> "1234567890"]

\* C14: an update payload over a subset of the create fields passes
\* validation exactly when each field it carries would pass in a create.
C14_UpdateFieldsAsInCreate ==
    (/\ last.op = "posts.update"
     /\ DOMAIN last.args.dto \subseteq {"userId", "title", "body"})
        => (last.stage = "service"
              <=> \A key \in DOMAIN last.args.dto :
                     CreatePostDto(Spread(AcceptedCreatePost,
                                          Restrict(last.args.dto, {key}))))

Called == api.verb # "none"

\* C15: a call whose fetch got no response throws an error of status 0; a call
\* that did get a response never throws status 0; and handleRequestError gives
\* back unchanged an error that carries a server status.
C15_StatusZeroMeansNoResponse ==
    Called =>
        /\ api.fetched.kind = "rejected" =>
               api.result.threw /\ api.result.error.status = 0
        /\ api.fetched.kind = "response" =>
               ~(api.result.threw /\ api.result.error.status = 0)
        /\ (api.fetched.kind = "response" /\ ~Ok(api.fetched)) =>
               handleRequestError(handleHttpError(api.fetched)) = handleHttpError(api.fetched)

\* What the body of a non-success response says the message is, if anything
BodyMessage(response) == Member(response.body.json, "message")

\* C16 as stated: a non-success response throws {status, message, details} with
\* the response's status, the parsed body's message when the body parses, and
\* the status text when it does not.
C16_ErrorMessageAsStated ==
    (Called /\ api.fetched.kind = "response" /\ ~Ok(api.fetched)) =>
        /\ api.result.threw
        /\ DOMAIN api.result.error = {"status", "message", "details"}
        /\ api.result.error.status = api.fetched.status
        /\ IF api.fetched.body.parses
           THEN HasKey(api.fetched.body.json, "message") =>
                    api.result.error.message = BodyMessage(api.fetched)
           ELSE api.result.error.message = JString(api.fetched.statusText)

\* C16: a non-success response throws {status, message, details} with the
\* response's status; the message is the parsed body's message when the body
\* parses to a non-null value with a non-empty message, the status text when
\* the body does not parse (or parses to null) and the status text is not
\* empty, and "HTTP Error: <status>" in every other case.
C16_ErrorMessageWithFallbacks ==
    (Called /\ api.fetched.kind = "response" /\ ~Ok(api.fetched)) =>
        LET response == api.fetched
            usable == response.body.parses /\ response.body.json.t # "null"
            fallback == JString("HTTP Error: " \o ToString(response.status))
        IN  /\ api.result.threw
            /\ DOMAIN api.result.error = {"status", "message", "details"}
            /\ api.result.error.status = response.status
            /\ api.result.error.message =
                   IF usable /\ TruthyJson(BodyMessage(response)) THEN BodyMessage(response)
                   ELSE IF ~usable /\ response.statusText # "" THEN JString(response.statusText)
                   ELSE fallback

C16_Witness ==
    /\ Called /\ api.fetched.kind = "response" /\ api.fetched.status = 404
    /\ ~api.fetched.body.parses /\ api.fetched.statusText = ""
    /\ api.result.threw
    /\ api.result.error.message = JString("HTTP Error: 404")

\* C17: a success response whose body decodes returns the body's data when the
\* decoded body is an object with a data key and the decoded body otherwise;
\* unwrapping the envelope {data: p} gives p.
C17_SuccessUnwrapsEnvelope ==
    (Called /\ api.fetched.kind = "response" /\ Ok(api.fetched) /\ api.fetched.body.parses) =>
        LET json == api.fetched.body.json
        IN  /\ ~api.result.threw
            /\ api.result.value =
                   IF json.t = "object" /\ "data" \in DOMAIN json.fields
                   THEN json.fields.data ELSE json
            /\ \A p \in Payloads : json = Envelope(p) => api.result.value = p

C17_Witness ==
    /\ Called /\ api.fetched.kind = "response" /\ Ok(api.fetched)
    /\ api.fetched.body = Body(Envelope(JNull))
    /\ api.result = Returns(JNull)

\* What the running method gives when it is run whole on the present store
Whole ==
    CASE task.op = "posts.findAll" -> Return(posts, nextId, posts)
      [] task.op = "posts.findByUserId" -> PostsService_findByUserId(task.args.userId)
      [] task.op = "posts.findOne" -> PostsService_findOne(task.args.id)
      [] task.op = "posts.create" -> PostsService_create(task.args.dto)
      [] task.op = "posts.update" -> PostsService_update(task.args.id, task.args.dto)
      [] task.op = "posts.remove" -> PostsService_remove(task.args.id)

\* C18: every PostsService method runs as one atomic step: while a method is
\* on the stack no other handler touches the stores (in particular no user is
\* deleted between create's existence check and its push), and the statement
\* on which the method leaves has the effect and the answer of the whole
\* method run at that instant.
C18_MethodsAreAtomic ==
    [][task.op # "none" =>
          /\ users' = users /\ usersNextId' = usersNextId
          /\ task'.op \in {task.op, "none"}
          /\ task'.op = task.op => (posts' = posts /\ nextId' = nextId)
          /\ task'.op = "none" =>
                 /\ posts' = Whole.list
                 /\ nextId' = Whole.counter
                 /\ last' = Answer(task.op, task.args, "service", Whole)]_vars

C18_Witness ==
    /\ last.op = "users.remove" /\ last.status = "ok"
    /\ Len(posts) = Len(SeedPosts) + 1
    /\ posts[Len(posts)].userId = last.args.id
    /\ ~exists(last.args.id)

\* C19: the identifiers of the toasts on display are pairwise distinct, so that
\* removeToast(id) removes exactly one toast, whenever the toasts were added.
C19_ToastIdsDistinct ==
    [][/\ \A i, j \in DOMAIN toasts' : toasts'[i].id = toasts'[j].id => i = j
       /\ event' \in {"close", "timer"} => Len(toasts') = Len(toasts) - 1]_vars

\* The toasts on display, by their place in the history
Shown(list) == { list[i].nth : i \in DOMAIN list }

\* C20: a timer never removes a toast of duration 0 (such a toast goes only
\* when the user closes it), while a toast of positive duration, 5000 when none
\* is given, is removed by its timer.
C20_ZeroDurationStays ==
    [][event' = "timer" =>
          \A i \in DOMAIN toasts :
              Duration(toasts[i]) = 0 => toasts[i].nth \in Shown(toasts')]_vars

\* C22: a post update that succeeds returns and stores a record whose id is
\* the path id, for every payload UpdatePostDto accepts.
C22_UpdateKeepsId ==
    [][(last'.op = "posts.update" /\ last'.status = "ok") =>
          /\ last'.ret[1].id = last'.args.id
          /\ posts'[findIndex(posts, last'.args.id)].id = last'.args.id]_vars

\* C24: the post list keeps insertion order: a create appends the new post at
\* the end, an update replaces the record at its position and touches no
\* other, a remove takes one record out and leaves the others in their order,
\* and no other request changes the list.
C24_InsertionOrderKept ==
    [][IF last'.status # "ok" \/ last'.op \notin {"posts.create", "posts.update", "posts.remove"}
       THEN posts' = posts
       ELSE LET index == findIndex(posts, last'.args.id) IN
            CASE last'.op = "posts.create" -> posts' = Append(posts, last'.ret[1])
              [] last'.op = "posts.update" ->
                     /\ Len(posts') = Len(posts)
                     /\ posts'[index] = last'.ret[1]
                     /\ \A i \in DOMAIN posts : i # index => posts'[i] = posts[i]
              [] last'.op = "posts.remove" ->
                     posts' = SubSeq(posts, 1, index - 1) \o SubSeq(posts, index + 1, Len(posts))
      ]_vars

C24_Witness ==
    /\ last.op = "posts.remove" /\ last.status = "ok" /\ last.args.id = 2
    /\ Len(posts) = Len(SeedPosts) - 1
    /\ posts[1].id = 1 /\ posts[2].id = 3

\* C25: a post create or update that fails, rejected by validation or thrown by
\* the service, leaves the post list and the identifier counter as they were.
C25_FailureChangesNothing ==
    [][(last'.op \in {"posts.create", "posts.update"} /\ last'.status # "ok") =>
          posts' = posts /\ nextId' = nextId]_vars

C25_Witness ==
    /\ last.op = "posts.update" /\ last.status = "BadRequest" /\ last.stage = "service"
    /\ findIndex(posts, last.args.id) # 0
    /\ ~exists(last.args.dto.userId)

\* C23: when the backend answers 404, getPostById and deletePost throw the
\* not-found error that names the id; on every other failure they throw the
\* generic error.
C23_NotFoundErrorOn404 ==
    (svc.method # "none" /\ svc.result.threw) =>
        svc.result.error.message =
            IF svc.id > 0 /\ svc.fetched.kind = "response" /\ svc.fetched.status = 404
            THEN NotFoundMessage(svc.id)
            ELSE GenericMessage(svc.method)

\* C21: whenever at least one Modal of the page is open, body scrolling is
\* disabled (document.body.style.overflow is 'hidden').
C21_OpenModalLocksScroll ==
    (\E i \in DOMAIN Modals : isOpen[Modals[i]]) => overflow = "hidden"

\* C28: whenever the view (Post Details) modal is open, selectedPost is not null.
C28_ViewModalHasPost ==
    isOpen.view => selectedPost # <<>>

\* C26: on the Posts page, once every load and mutation request the page has
\* issued has completed (none of them failed), the list on display holds
\* exactly the ids of the backend's post list.
C26_DisplayedListIsBackendList ==
    (route = "/posts" /\ net = {} /\ failures = 0) => IdsOf(pagePosts) = IdsOf(posts)

\* C27: on the Users and Posts pages every add, update or delete submission
\* sets isSubmitting to true, and when its service call has settled, well or
\* not, sets it back to false; a submission under way is always followed by
\* isSubmitting being false again.
C27_SubmittingIsReset ==
    /\ [][/\ submits' # submits => isSubmitting'
          /\ settled' # "none" => ~isSubmitting']_vars
    /\ (isSubmitting ~> ~isSubmitting)

C27_Witness ==
    /\ route = "/users"
    /\ settled = "updateUser" /\ failures = 1
    /\ ~isSubmitting

====
